---- MODULE Spec2Model ----
(***************************************************************************)
(* Model of the trumail Lookup handler (src/api/lookup.go): address        *)
(* parsing, cache-backed memoization keyed by the MD5 hash of the address, *)
(* timeout-bounded verification, metrics counting and response encoding.   *)
(* Each request is a goroutine running Service.Lookup; the requests share  *)
(* the lookup cache, the metrics counters and the clock.                   *)
(***************************************************************************)
EXTENDS Integers, Sequences, FiniteSets, TLC

\* ------------------------------------------------------------------ bounds
MaxReq == 2
MaxTime == 2

\* ------------------------------------------------------- program constants
StatusOK == 200
StatusBadRequest == 400
StatusInternalServerError == 500

FormatJSON == <<"J", "S", "O", "N">>
FormatJSONP == <<"J", "S", "O", "N", "P">>
FormatXML == <<"X", "M", "L">>

ErrVerificationFailure == [type |-> "HTTPError", code |-> StatusInternalServerError, message |-> "Failed to perform email verification lookup"]
ErrUnsupportedFormat == [type |-> "HTTPError", code |-> StatusBadRequest, message |-> "Unsupported format"]
ErrInvalidCallback == [type |-> "HTTPError", code |-> StatusBadRequest, message |-> "Invalid callback query param provided"]

\* Default expiration of the lookup cache, in clock ticks.
DefaultExpiration == 1

\* ------------------------------------------------------------------ inputs
Req == 1..MaxReq
Time == 0..MaxTime

\* Raw "email" path parameters: two addresses and a string that is no address.
Emails == {"a@x", "b@x", "bad"}
\* "format" path parameters, as character sequences.
Formats == { <<"j", "s", "o", "n">>,
             <<"J", "s", "o", "n", "P">>,
             <<"X", "M", "L">>,
             <<"b", "o", "g", "u", "s">> }
\* "callback" query parameters; "" is also what a missing one reads as.
Callbacks == {"", "cb"}

Nil == [type |-> "nil"]
NoAddress == [type |-> "nil"]

\* ------------------------------------------------------- pure operations
\* strings.ToUpper on one character.
UpperChar(ch) ==
    CASE ch = "j" -> "J" [] ch = "s" -> "S" [] ch = "o" -> "O"
      [] ch = "n" -> "N" [] ch = "p" -> "P" [] ch = "x" -> "X"
      [] ch = "m" -> "M" [] ch = "l" -> "L" [] ch = "b" -> "B"
      [] ch = "g" -> "G" [] ch = "u" -> "U" [] OTHER -> ch

\* strings.ToUpper.
ToUpper(s) == [i \in 1..Len(s) |-> UpperChar(s[i])]

\* verifier.ParseAddress: the canonical address with its MD5 hash, or an error.
MD5Hash(addr) ==
    CASE addr = "a@x" -> "h_a" [] addr = "b@x" -> "h_b" [] OTHER -> "h_other"

ParseAddress(email) ==
    CASE email = "a@x" -> [type |-> "Address", Address |-> "a@x", MD5Hash |-> MD5Hash("a@x")]
      [] email = "b@x" -> [type |-> "Address", Address |-> "b@x", MD5Hash |-> MD5Hash("b@x")]
      [] OTHER -> [type |-> "error", kind |-> "AddressParseError", of |-> email]

Addresses == {"a@x", "b@x"}
Hashes == {MD5Hash(a) : a \in Addresses}

\* A *verifier.Lookup produced by the verification engine; id tells two
\* Lookup objects for the same address apart.
Lookup(addr, deliverable, id) ==
    [type |-> "Lookup", Address |-> addr, Deliverable |-> deliverable, id |-> id]

\* The error VerifyAddressTimeout returns, by cause.
VerifyError(cause, addr) == [type |-> "error", kind |-> cause, of |-> addr]

\* lookupCache.Get at time t: an entry is found unless it has expired.
NoItem == [type |-> "none"]
Get(c, k, t) ==
    IF c[k].type = "item" /\ ~(t > c[k].Expiration)
    THEN [found |-> TRUE, Object |-> c[k].Object]
    ELSE [found |-> FALSE, Object |-> Nil]

\* lookupCache.SetDefault at time t: replaces the entry of k.
SetDefault(c, k, x, t) ==
    [c EXCEPT ![k] = [type |-> "item", Object |-> x, Expiration |-> t + DefaultExpiration]]

\* One call of a metrics client: tinystat.CreateAction(action) or
\* raven.CaptureError(err, nil).
CreateAction(a) == [sink |-> "tinystat", action |-> a, err |-> Nil]
CaptureError(e) == [sink |-> "raven", action |-> "capture", err |-> e]

\* Mutant: the error case of the type switch is missing.
countLookupsOnly(r) ==
    CASE r.type = "Lookup" ->
           IF r.Deliverable
           THEN << CreateAction("deliverable") >>
           ELSE << CreateAction("undeliverable") >>
      [] OTHER -> << >>

\* Mutant: the branches of the Deliverable test are swapped.
countSwapped(r) ==
    CASE r.type = "Lookup" ->
           IF r.Deliverable
           THEN << CreateAction("undeliverable") >>
           ELSE << CreateAction("deliverable") >>
      [] r.type \in {"error", "HTTPError"} ->
           << CaptureError(r), CreateAction("error") >>
      [] OTHER -> << >>

\* count: the metrics calls made for a response value, in order.
count(r) ==
    CASE r.type = "Lookup" ->
           IF r.Deliverable
           THEN << CreateAction("deliverable") >>
           ELSE << CreateAction("undeliverable") >>
      [] r.type \in {"error", "HTTPError"} ->
           << CaptureError(r), CreateAction("error") >>
      [] OTHER -> << >>

\* Mutant: the encoders are called with http.StatusOK.
EncodedOK(mime, cb, code, r) ==
    [status |-> 200, mime |-> mime, callback |-> cb, payload |-> r, err |-> Nil]

\* The response written by c.JSON / c.JSONP / c.XML.
Encoded(mime, cb, code, r) ==
    [status |-> code, mime |-> mime, callback |-> cb, payload |-> r, err |-> Nil]

\* The response produced when the handler returns an HTTPError: no body was
\* written by an encoder, the status is the error's.
Failed(e) ==
    [status |-> e.code, mime |-> "none", callback |-> "", payload |-> Nil, err |-> e]

\* Mutant: JSONP is encoded without looking at the callback.
respondAnyCallback(fmt, cb, code, r) ==
    LET f == ToUpper(fmt) IN
    CASE f = FormatJSON -> Encoded("json", "", code, r)
      [] f = FormatJSONP -> Encoded("jsonp", cb, code, r)
      [] f = FormatXML -> Encoded("xml", "", code, r)
      [] OTHER -> Failed(ErrUnsupportedFormat)

\* Mutant: an unknown format falls back to JSON.
respondDefaultJSON(fmt, cb, code, r) ==
    LET f == ToUpper(fmt) IN
    CASE f = FormatJSONP ->
           IF cb = "" THEN Failed(ErrInvalidCallback)
           ELSE Encoded("jsonp", cb, code, r)
      [] f = FormatXML -> Encoded("xml", "", code, r)
      [] OTHER -> Encoded("json", "", code, r)

\* respond: encodes res in the requested format.
respond(fmt, cb, code, r) ==
    LET f == ToUpper(fmt) IN
    CASE f = FormatJSON -> Encoded("json", "", code, r)
      [] f = FormatJSONP ->
           IF cb = "" THEN Failed(ErrInvalidCallback)
           ELSE Encoded("jsonp", cb, code, r)
      [] f = FormatXML -> Encoded("xml", "", code, r)
      [] OTHER -> Failed(ErrUnsupportedFormat)

\* ------------------------------------------------------------------- state
VARIABLES
    pc,          \* position of each request in Lookup
    email,       \* c.Param("email")
    format,      \* c.Param("format")
    callback,    \* c.QueryParam("callback")
    address,     \* result of ParseAddress
    lookup,      \* local variable lookup of Lookup
    code,        \* status code handed to countAndRespond
    res,         \* response value handed to countAndRespond
    resp,        \* the response delivered to the caller
    lookupCache, \* s.lookupCache
    now,         \* the clock
    tinystat,    \* action counters of the metrics backend
    raven,       \* errors captured by the error-reporting backend
    engineCalls, \* calls of VerifyAddressTimeout, per address
    produced,    \* Lookups returned by VerifyAddressTimeout
    hit,         \* whether the request's cache Get found an entry
    calls,       \* calls of VerifyAddressTimeout, per request
    tele,        \* metrics calls made on behalf of each request
    getAt,       \* time of the request's cache Get
    storedAt     \* time of the request's cache SetDefault

vars == << pc, email, format, callback, address, lookup, code, res, resp,
           lookupCache, now, tinystat, raven, engineCalls, produced,
           hit, calls, tele, getAt, storedAt >>

reqVars == << email, format, callback >>
NoTime == 0 - 1
NoResp == [status |-> 0, mime |-> "none", callback |-> "", payload |-> Nil, err |-> Nil]
Actions == {"deliverable", "undeliverable", "error"}

Init ==
    /\ pc = [r \in Req |-> "Idle"]
    /\ email = [r \in Req |-> ""]
    /\ format = [r \in Req |-> << >>]
    /\ callback = [r \in Req |-> ""]
    /\ address = [r \in Req |-> NoAddress]
    /\ lookup = [r \in Req |-> Nil]
    /\ code = [r \in Req |-> 0]
    /\ res = [r \in Req |-> Nil]
    /\ resp = [r \in Req |-> NoResp]
    /\ lookupCache = [h \in Hashes |-> NoItem]
    /\ now = 0
    /\ tinystat = [a \in Actions |-> 0]
    /\ raven = << >>
    /\ engineCalls = [a \in Addresses |-> 0]
    /\ produced = {}
    /\ hit = [r \in Req |-> FALSE]
    /\ calls = [r \in Req |-> 0]
    /\ tele = [r \in Req |-> << >>]
    /\ getAt = [r \in Req |-> NoTime]
    /\ storedAt = [r \in Req |-> NoTime]

\* Mutant: the cache is keyed by the domain, which the addresses share.
CacheKeyByDomain(r) == MD5Hash("a@x")

\* The cache key of a request: address.MD5Hash.
CacheKey(r) == address[r].MD5Hash

\* Mutant: the entry is read from the cache's item map, expired or not.
FoundIgnoringExpiry(r) ==
    IF lookupCache[CacheKey(r)].type = "item"
    THEN [found |-> TRUE, Object |-> lookupCache[CacheKey(r)].Object]
    ELSE [found |-> FALSE, Object |-> Nil]

\* lookup, ok := s.lookupCache.Get(address.MD5Hash)
Found(r) == Get(lookupCache, CacheKey(r), now)

\* Mutant: the new Lookup is not stored.
StoredNothing(r) == lookupCache

\* Mutant: the new Lookup is merged into the entry already there.
StoredMerged(r) ==
    IF lookupCache[CacheKey(r)] = NoItem
    THEN SetDefault(lookupCache, CacheKey(r), lookup[r], now)
    ELSE SetDefault(lookupCache, CacheKey(r),
                    [lookup[r] EXCEPT !.id = lookupCache[CacheKey(r)].Object.id], now)

\* The cache after s.lookupCache.SetDefault(address.MD5Hash, lookup)
Stored(r) == SetDefault(lookupCache, CacheKey(r), lookup[r], now)

\* Mutant: respond is called in place of countAndRespond.
RespondOnly(r, cd, rs) ==
    /\ code' = [code EXCEPT ![r] = cd]
    /\ res' = [res EXCEPT ![r] = rs]
    /\ pc' = [pc EXCEPT ![r] = "Responding"]

\* countAndRespond(c, code, res) is entered: the arguments are bound.
CountAndRespond(r, cd, rs) ==
    /\ code' = [code EXCEPT ![r] = cd]
    /\ res' = [res EXCEPT ![r] = rs]
    /\ pc' = [pc EXCEPT ![r] = "Counting"]

\* A request arrives and Lookup reads its "email" parameter; requests are
\* numbered in order of arrival.
Receive(r) ==
    /\ pc[r] = "Idle"
    /\ \A q \in Req : q < r => pc[q] # "Idle"
    /\ \E e \in Emails : email' = [email EXCEPT ![r] = e]
    /\ pc' = [pc EXCEPT ![r] = "Received"]
    /\ UNCHANGED << format, callback, address, lookup, code, res, resp, lookupCache,
                    now, tinystat, raven, engineCalls, produced, hit, calls, tele,
                    getAt, storedAt >>

\* Mutant: a parse error is not returned; the lookup goes on with a fallback
\* address.
ParseGoesOn(r) ==
    /\ pc[r] = "Received"
    /\ LET a == ParseAddress(email[r]) IN
         address' = [address EXCEPT ![r] =
                       IF a.type = "error" THEN ParseAddress("a@x") ELSE a]
    /\ pc' = [pc EXCEPT ![r] = "Normalized"]
    /\ UNCHANGED << reqVars, code, res, lookup, resp, lookupCache, now, tinystat,
                    raven, engineCalls, produced, hit, calls, tele, getAt, storedAt >>

\* verifier.ParseAddress(email); an error goes to countAndRespond with 400.
Parse(r) ==
    /\ pc[r] = "Received"
    /\ LET a == ParseAddress(email[r]) IN
         IF a.type = "error"
         THEN /\ CountAndRespond(r, StatusBadRequest, a)
              /\ UNCHANGED address
         ELSE /\ address' = [address EXCEPT ![r] = a]
              /\ pc' = [pc EXCEPT ![r] = "Normalized"]
              /\ UNCHANGED << code, res >>
    /\ UNCHANGED << reqVars, lookup, resp, lookupCache, now, tinystat, raven,
                    engineCalls, produced, hit, calls, tele, getAt, storedAt >>

\* Mutant: a request waits while another request is verifying its address.
CacheLookupSingleFlight(r) ==
    /\ pc[r] = "Normalized"
    /\ ~\E q \in Req : q # r /\ pc[q] \in {"Verifying", "Verified"}
                        /\ address[q].Address = address[r].Address
    /\ getAt' = [getAt EXCEPT ![r] = now]
    /\ LET g == Get(lookupCache, address[r].MD5Hash, now) IN
         IF g.found
         THEN /\ CountAndRespond(r, StatusOK, g.Object)
              /\ hit' = [hit EXCEPT ![r] = TRUE]
              /\ UNCHANGED << engineCalls, calls >>
         ELSE /\ pc' = [pc EXCEPT ![r] = "Verifying"]
              /\ engineCalls' = [engineCalls EXCEPT ![address[r].Address] = @ + 1]
              /\ calls' = [calls EXCEPT ![r] = @ + 1]
              /\ UNCHANGED << code, res, hit >>
    /\ UNCHANGED << reqVars, address, lookup, resp, lookupCache, now, tinystat,
                    raven, produced, tele, storedAt >>

\* s.lookupCache.Get(address.MD5Hash): a hit goes to countAndRespond with 200,
\* a miss calls s.verifier.VerifyAddressTimeout.
CacheLookup(r) ==
    /\ pc[r] = "Normalized"
    /\ getAt' = [getAt EXCEPT ![r] = now]
    /\ LET g == Found(r) IN
         IF g.found
         THEN /\ CountAndRespond(r, StatusOK, g.Object)
              /\ hit' = [hit EXCEPT ![r] = TRUE]
              /\ UNCHANGED << engineCalls, calls >>
         ELSE /\ pc' = [pc EXCEPT ![r] = "Verifying"]
              /\ engineCalls' = [engineCalls EXCEPT ![address[r].Address] = @ + 1]
              /\ calls' = [calls EXCEPT ![r] = @ + 1]
              /\ UNCHANGED << code, res, hit >>
    /\ UNCHANGED << reqVars, address, lookup, resp, lookupCache, now, tinystat,
                    raven, produced, tele, storedAt >>

\* VerifyAddressTimeout returns a Lookup.
VerifyOk(r) ==
    /\ pc[r] = "Verifying"
    /\ \E d \in BOOLEAN :
         LET l == Lookup(address[r].Address, d, Cardinality(produced) + 1) IN
           /\ lookup' = [lookup EXCEPT ![r] = l]
           /\ produced' = produced \cup {l}
    /\ pc' = [pc EXCEPT ![r] = "Verified"]
    /\ UNCHANGED << reqVars, address, code, res, resp, lookupCache, now, tinystat,
                    raven, engineCalls, hit, calls, tele, getAt, storedAt >>

\* Mutant: the Lookup is stored before the error is looked at.
VerifyFailStores(r) ==
    /\ pc[r] = "Verifying"
    /\ \E cause \in {"EngineFailure", "Timeout"} :
         CountAndRespond(r, StatusInternalServerError, VerifyError(cause, address[r].Address))
    /\ lookupCache' = Stored(r)
    /\ UNCHANGED << reqVars, address, lookup, resp, now, tinystat,
                    raven, engineCalls, produced, hit, calls, tele, getAt, storedAt >>

\* Mutant: a failed verification is tried once more.
VerifyFailRetries(r) ==
    /\ pc[r] = "Verifying"
    /\ IF calls[r] < 2
       THEN /\ engineCalls' = [engineCalls EXCEPT ![address[r].Address] = @ + 1]
            /\ calls' = [calls EXCEPT ![r] = @ + 1]
            /\ UNCHANGED << pc, code, res >>
       ELSE /\ \E cause \in {"EngineFailure", "Timeout"} :
                 CountAndRespond(r, StatusInternalServerError,
                                 VerifyError(cause, address[r].Address))
            /\ UNCHANGED << engineCalls, calls >>
    /\ UNCHANGED << reqVars, address, lookup, resp, lookupCache, now, tinystat,
                    raven, produced, hit, tele, getAt, storedAt >>

\* Mutant: the engine's error is replaced by ErrVerificationFailure.
VerifyFailWrapped(r) ==
    /\ pc[r] = "Verifying"
    /\ CountAndRespond(r, StatusInternalServerError, ErrVerificationFailure)
    /\ UNCHANGED << reqVars, address, lookup, resp, lookupCache, now, tinystat,
                    raven, engineCalls, produced, hit, calls, tele, getAt, storedAt >>

\* VerifyAddressTimeout returns an error: the engine failed, or the timeout
\* ended the wait.
VerifyFail(r) ==
    /\ pc[r] = "Verifying"
    /\ \E cause \in {"EngineFailure", "Timeout"} :
         CountAndRespond(r, StatusInternalServerError, VerifyError(cause, address[r].Address))
    /\ UNCHANGED << reqVars, address, lookup, resp, lookupCache, now, tinystat,
                    raven, engineCalls, produced, hit, calls, tele, getAt, storedAt >>

\* s.lookupCache.SetDefault(address.MD5Hash, lookup), then countAndRespond
\* with 200.
CacheStore(r) ==
    /\ pc[r] = "Verified"
    /\ lookupCache' = Stored(r)
    /\ storedAt' = [storedAt EXCEPT ![r] = now]
    /\ CountAndRespond(r, StatusOK, lookup[r])
    /\ UNCHANGED << reqVars, address, lookup, resp, now, tinystat, raven,
                    engineCalls, produced, hit, calls, tele, getAt >>

\* The number of calls of tinystat.CreateAction(a) in a sequence of metrics calls.
RECURSIVE Created(_, _)
Created(evs, a) ==
    IF evs = << >> THEN 0
    ELSE (IF Head(evs).sink = "tinystat" /\ Head(evs).action = a THEN 1 ELSE 0)
         + Created(Tail(evs), a)

\* The errors handed to raven.CaptureError in a sequence of metrics calls.
Captured(evs) == SelectSeq(evs, LAMBDA e : e.sink = "raven")

\* count(res) runs and returns.  The calls of the metrics clients are made
\* on the request's own goroutine, before respond.
Count(r) ==
    /\ pc[r] = "Counting"
    /\ LET evs == count(res[r]) IN
         /\ tele' = [tele EXCEPT ![r] = @ \o evs]
         /\ tinystat' = [a \in Actions |-> tinystat[a] + Created(evs, a)]
         /\ raven' = raven \o Captured(evs)
    /\ pc' = [pc EXCEPT ![r] = "Responding"]
    /\ UNCHANGED << reqVars, address, lookup, code, res, resp, lookupCache, now,
                    engineCalls, produced, hit, calls, getAt, storedAt >>

\* The "callback" query parameters respond can read: it reads the parameter
\* in the JSONP case only.
CallbacksRead(f) == IF ToUpper(f) = FormatJSONP THEN Callbacks ELSE {""}

\* Mutant: an error of the encoder is counted as an error as well.
RespondCountsFailure(r) ==
    /\ pc[r] = "Responding"
    /\ \E f \in Formats :
         \E cb \in CallbacksRead(f) :
           LET out == respond(f, cb, code[r], res[r])
               evs == IF out.err = Nil THEN << >> ELSE count(out.err)
           IN /\ format' = [format EXCEPT ![r] = f]
              /\ callback' = [callback EXCEPT ![r] = cb]
              /\ resp' = [resp EXCEPT ![r] = out]
              /\ tele' = [tele EXCEPT ![r] = @ \o evs]
              /\ tinystat' = [a \in Actions |-> tinystat[a] + Created(evs, a)]
              /\ raven' = raven \o Captured(evs)
    /\ pc' = [pc EXCEPT ![r] = "Done"]
    /\ UNCHANGED << email, address, lookup, code, res, lookupCache, now,
                    engineCalls, produced, hit, calls, getAt, storedAt >>

\* respond(c, code, res) runs: it reads the request's "format" parameter and,
\* for JSONP, its "callback" parameter, and the response is delivered.
Respond(r) ==
    /\ pc[r] = "Responding"
    /\ \E f \in Formats :
         \E cb \in CallbacksRead(f) :
           /\ format' = [format EXCEPT ![r] = f]
           /\ callback' = [callback EXCEPT ![r] = cb]
           /\ resp' = [resp EXCEPT ![r] = respond(f, cb, code[r], res[r])]
    /\ pc' = [pc EXCEPT ![r] = "Done"]
    /\ UNCHANGED << email, address, lookup, code, res, lookupCache, now, tinystat,
                    raven, engineCalls, produced, hit, calls, tele, getAt, storedAt >>

\* Time passes.
Tick ==
    /\ now < MaxTime
    /\ now' = now + 1
    /\ UNCHANGED << pc, reqVars, address, lookup, code, res, resp, lookupCache,
                    tinystat, raven, engineCalls, produced, hit, calls, tele,
                    getAt, storedAt >>

Next ==
    \/ \E r \in Req : Receive(r)
    \/ \E r \in Req : Parse(r)
    \/ \E r \in Req : CacheLookup(r)
    \/ \E r \in Req : VerifyOk(r)
    \/ \E r \in Req : VerifyFail(r)
    \/ \E r \in Req : CacheStore(r)
    \/ \E r \in Req : Count(r)
    \/ \E r \in Req : Respond(r)
    \/ Tick

Spec == Init /\ [][Next]_vars

\* Requests executed one after another: a request arrives only when no other
\* request is in progress.
NoneActive == \A q \in Req : pc[q] \in {"Idle", "Done"}
SeqReceive(r) == NoneActive /\ Receive(r)

SeqNext ==
    \/ \E r \in Req : SeqReceive(r)
    \/ \E r \in Req : Parse(r)
    \/ \E r \in Req : CacheLookup(r)
    \/ \E r \in Req : VerifyOk(r)
    \/ \E r \in Req : VerifyFail(r)
    \/ \E r \in Req : CacheStore(r)
    \/ \E r \in Req : Count(r)
    \/ \E r \in Req : Respond(r)
    \/ Tick

SeqSpec == Init /\ [][SeqNext]_vars

\* The steps of Lookup that the handler's goroutine takes by itself, and the
\* return of VerifyAddressTimeout, which its timeout bounds.
HandlerFairness ==
    \A r \in Req :
      /\ WF_vars(Parse(r))
      /\ WF_vars(CacheLookup(r))
      /\ WF_vars(VerifyOk(r) \/ VerifyFail(r))
      /\ WF_vars(CacheStore(r))
      /\ WF_vars(Respond(r))

\* Nothing in the handler bounds the calls of the metrics clients: count
\* returns when they do.
TelemetrySpec == Init /\ [][Next]_vars /\ HandlerFairness

\* The handler with metrics clients whose calls return: count returns too.
FairSpec ==
    Init /\ [][Next]_vars /\ HandlerFairness /\ \A r \in Req : WF_vars(Count(r))

TypeOK ==
    /\ pc \in [Req -> {"Idle", "Received", "Normalized", "Verifying", "Verified",
                       "Counting", "Responding", "Done"}]
    /\ now \in Time
    /\ \A a \in Actions : tinystat[a] \in 0..MaxReq

\* ------------------------------------------------------------ definitions
\* used by the properties

\* Case-insensitive comparison of a format with a format name, letter by letter.
LowerChar(ch) ==
    CASE ch = "J" -> "j" [] ch = "S" -> "s" [] ch = "O" -> "o"
      [] ch = "N" -> "n" [] ch = "P" -> "p" [] ch = "X" -> "x"
      [] ch = "M" -> "m" [] ch = "L" -> "l" [] ch = "B" -> "b"
      [] ch = "G" -> "g" [] ch = "U" -> "u" [] OTHER -> ch
EqualFold(s, t) ==
    /\ Len(s) = Len(t)
    /\ \A i \in 1..Len(s) : LowerChar(s[i]) = LowerChar(t[i])

\* The request's format is one the encoder accepts, with a callback for JSONP.
ValidFormat(r) ==
    \/ EqualFold(format[r], FormatJSON)
    \/ EqualFold(format[r], FormatXML)
    \/ EqualFold(format[r], FormatJSONP) /\ callback[r] # ""

Counted(r) == pc[r] \in {"Responding", "Done"}
PastGet(r) == getAt[r] # NoTime
HasStored(r) == storedAt[r] # NoTime
HasResult(r) == pc[r] \in {"Counting", "Responding", "Done"}
VerificationFailed(r) ==
    HasResult(r) /\ res[r].type = "error" /\ res[r].kind \in {"EngineFailure", "Timeout"}
SameAddress(q, r) ==
    address[q].type = "Address" /\ address[r].type = "Address"
    /\ address[q].Address = address[r].Address

\* ----------------------------------------------------------------- C1
\* C1 (SeqSpec): with requests executed one after another, when request q has
\* stored the Lookup of a successful verification of address A, a later
\* request r for A whose cache Get happens no later than the entry's
\* expiration is a cache hit: it does not call the verification engine, its
\* result is q's Lookup with code 200, and with a valid format the response
\* is 200 with that Lookup as payload.  While the entry of the first request
\* that called the engine for A is alive, the engine call count of A is 1.
WithinTTL(q, r) ==
    /\ q < r /\ HasStored(q) /\ PastGet(r) /\ SameAddress(q, r)
    /\ getAt[r] <= storedAt[q] + DefaultExpiration

FirstCaller(q) ==
    HasStored(q) /\ \A p \in Req : (p < q /\ SameAddress(p, q)) => calls[p] = 0

\* C1 (SeqSpec): a later request for a stored address within the entry's
\* expiration is a hit for the same Lookup with no engine call; the engine
\* call count of the address stays 1.
C1_Memoization ==
    /\ \A q, r \in Req :
         WithinTTL(q, r) =>
           /\ hit[r] /\ calls[r] = 0
           /\ res[r] = lookup[q] /\ code[r] = StatusOK
           /\ (pc[r] = "Done" /\ ValidFormat(r)) =>
                (resp[r].status = StatusOK /\ resp[r].payload = lookup[q])
    /\ \A q \in Req :
         (FirstCaller(q) /\ now <= storedAt[q] + DefaultExpiration) =>
           engineCalls[address[q].Address] = 1

C1_Witness ==
    \E q, r \in Req :
      /\ WithinTTL(q, r) /\ FirstCaller(q) /\ pc[r] = "Done" /\ ValidFormat(r)
      /\ resp[r].payload = lookup[q] /\ engineCalls[address[q].Address] = 1

\* ----------------------------------------------------------------- C2
\* C2: a request whose verification call failed or timed out calls the error
\* counter exactly once and no other counter, is answered with status 500
\* when its format is valid, and none of its steps (the failing return,
\* count, respond) changes the cache; it never stored anything.
C2_State ==
    \A r \in Req :
      VerificationFailed(r) =>
        /\ code[r] = StatusInternalServerError
        /\ ~HasStored(r)
        /\ Counted(r) =>
             /\ Created(tele[r], "error") = 1
             /\ Created(tele[r], "deliverable") = 0
             /\ Created(tele[r], "undeliverable") = 0
        /\ (pc[r] = "Done" /\ ValidFormat(r)) =>
             (resp[r].status = StatusInternalServerError /\ resp[r].payload = res[r])

C2_Step ==
    \A r \in Req :
      (pc'[r] # pc[r] /\ (VerificationFailed(r)' \/ VerificationFailed(r))) =>
        lookupCache' = lookupCache

\* C2: a failed or timed-out verification gives 500, one "error" count and
\* no change of the cache by that request.
C2_VerificationFailure == [](C2_State) /\ [][C2_Step]_vars

C2_Witness ==
    \E r \in Req :
      /\ VerificationFailed(r) /\ res[r].kind = "Timeout"
      /\ pc[r] = "Done" /\ ValidFormat(r) /\ resp[r].status = StatusInternalServerError
      /\ tinystat["error"] = 1 /\ lookupCache[CacheKey(r)] = NoItem

\* ----------------------------------------------------------------- C3
\* C3: under any interleaving, every cache entry holds a Lookup that
\* VerifyAddressTimeout returned for the address with that hash; the cache
\* changes only in the step that stores the Lookup of a successful
\* verification (never on a cache hit, an address-parse error, a
\* verification error, count or respond); and a cache hit hands on such a
\* Lookup for the request's own address, as it was produced.
C3_State ==
    /\ \A h \in Hashes :
         lookupCache[h] # NoItem =>
           /\ lookupCache[h].Object \in produced
           /\ MD5Hash(lookupCache[h].Object.Address) = h
    /\ \A r \in Req :
         hit[r] => (res[r] \in produced /\ res[r].Address = address[r].Address)

C3_Step ==
    lookupCache' # lookupCache =>
      \E r \in Req :
        /\ pc[r] = "Verified" /\ pc'[r] = "Counting"
        /\ lookup[r] \in produced /\ lookup[r].Address = address[r].Address
        /\ lookupCache' = [lookupCache EXCEPT ![MD5Hash(address[r].Address)] =
                             [type |-> "item", Object |-> lookup[r],
                              Expiration |-> now + DefaultExpiration]]

\* C3: cache entries are Lookups of successful verifications, written only
\* by the store step after one, and handed on unchanged by a hit.
C3_CacheHoldsVerified == [](C3_State) /\ [][C3_Step]_vars

C3_Witness ==
    \E q, r \in Req :
      /\ HasStored(q) /\ hit[r] /\ pc[r] = "Done" /\ res[r] = lookup[q]
      /\ resp[r].payload = lookup[q] /\ lookupCache[CacheKey(r)].Object = lookup[q]

\* ----------------------------------------------------------------- C4
\* C4: a request is never answered from another address's entry: the result
\* of a cache hit is a Lookup of the request's own address, and a request for
\* an address no other request has stored a Lookup for misses the cache and
\* calls the verification engine, also when another address is cached.
NeverSeen(r) == \A q \in Req : (q # r /\ SameAddress(q, r)) => ~HasStored(q)

\* C4: a hit is always for the request's own address; a never-seen address
\* misses and calls the engine.
C4_NoSharedHit ==
    \A r \in Req :
      /\ hit[r] => res[r].Address = address[r].Address
      /\ (pc[r] = "Done" /\ resp[r].payload.type = "Lookup") =>
           resp[r].payload.Address = address[r].Address
      /\ (PastGet(r) /\ NeverSeen(r)) => (~hit[r] /\ calls[r] = 1)

C4_Witness ==
    \E q, r \in Req :
      /\ q < r /\ HasStored(q) /\ PastGet(r) /\ storedAt[q] <= getAt[r]
      /\ address[q].Address = "a@x" /\ address[r].Address = "b@x"
      /\ lookupCache[CacheKey(q)] # NoItem
      /\ getAt[r] <= lookupCache[CacheKey(q)].Expiration
      /\ ~hit[r] /\ calls[r] = 1 /\ engineCalls["b@x"] = 1

\* ----------------------------------------------------------------- C5
\* C5: a cache hit is always the Lookup of an entry that was stored no more
\* than the default expiration before the Get; a request whose Get comes
\* after every earlier entry of its address has expired misses, calls the
\* verification engine, and on success stores its own Lookup with an
\* expiration counted from the moment of that store.
Fresh(q, r) ==
    /\ q # r /\ SameAddress(q, r) /\ HasStored(q)
    /\ storedAt[q] <= getAt[r] /\ getAt[r] <= storedAt[q] + DefaultExpiration

\* C5: an expired entry is never a hit; the request misses, verifies and
\* stores again with a fresh expiration.
C5_ExpiredIsAbsent ==
    /\ \A r \in Req :
         /\ hit[r] => \E q \in Req : Fresh(q, r) /\ res[r] = lookup[q]
         /\ (PastGet(r) /\ ~\E q \in Req : Fresh(q, r)) => (~hit[r] /\ calls[r] = 1)
    /\ \A r \in Req :
         (HasStored(r) /\ lookupCache[CacheKey(r)].Object = lookup[r]) =>
           lookupCache[CacheKey(r)].Expiration = storedAt[r] + DefaultExpiration

C5_Witness ==
    \E q, r \in Req :
      /\ q # r /\ SameAddress(q, r) /\ HasStored(q) /\ HasStored(r)
      /\ getAt[r] > storedAt[q] + DefaultExpiration
      /\ ~hit[r] /\ calls[r] = 1 /\ pc[r] = "Done"
      /\ lookupCache[CacheKey(r)].Object = lookup[r]
      /\ lookupCache[CacheKey(r)].Expiration = storedAt[r] + DefaultExpiration

\* ----------------------------------------------------------------- C6
\* C6: no metrics call is made for a request before its result (Lookup or
\* error) is handed to countAndRespond and count has run; from then on,
\* through Done, exactly one CreateAction call has been made for it, on every
\* path; and the counters add up to one per counted request.
Increments(r) ==
    Created(tele[r], "deliverable") + Created(tele[r], "undeliverable")
      + Created(tele[r], "error")

RECURSIVE CountedUpTo(_)
CountedUpTo(n) ==
    IF n = 0 THEN 0 ELSE (IF Counted(n) THEN 1 ELSE 0) + CountedUpTo(n - 1)

\* C6: exactly one counter call per request, made once its result is known.
C6_TelemetryOnce ==
    /\ \A r \in Req :
         /\ ~Counted(r) => tele[r] = << >>
         /\ Counted(r) => (HasResult(r) /\ res[r] # Nil /\ Increments(r) = 1)
    /\ tinystat["deliverable"] + tinystat["undeliverable"] + tinystat["error"]
         = CountedUpTo(MaxReq)

C6_Witness ==
    \E q, r \in Req :
      /\ pc[q] = "Done" /\ pc[r] = "Done"
      /\ res[q].type = "error" /\ res[q].kind = "AddressParseError"
      /\ res[r].type = "Lookup" /\ Increments(q) = 1 /\ Increments(r) = 1

\* ----------------------------------------------------------------- C7
\* C7 as stated: the counter follows the outcome of the request, and an
\* outcome that is an error (address-parse, verification, unsupported-format
\* or invalid-callback error) is captured by the error sink and counted as
\* "error" only.
Outcome(r) == IF resp[r].err # Nil THEN resp[r].err ELSE res[r]
IsError(x) == x.type \in {"error", "HTTPError"}

\* The request made exactly the CreateAction call a, and no other.
OnlyCounter(r, a) == \A b \in Actions : Created(tele[r], b) = (IF b = a THEN 1 ELSE 0)

\* C7 as stated: the counter follows the outcome, encoder errors included.
C7_Original ==
    \A r \in Req :
      pc[r] = "Done" =>
        LET x == Outcome(r) IN
          /\ (x.type = "Lookup" /\ x.Deliverable) => OnlyCounter(r, "deliverable")
          /\ (x.type = "Lookup" /\ ~x.Deliverable) => OnlyCounter(r, "undeliverable")
          /\ IsError(x) => (OnlyCounter(r, "error") /\ Captured(tele[r]) # << >>)

\* The metrics calls count makes for a value, as the classification has it.
ClassifiedBy(r, x) ==
    /\ (x.type = "Lookup" /\ x.Deliverable) =>
         (OnlyCounter(r, "deliverable") /\ tele[r] = << CreateAction("deliverable") >>)
    /\ (x.type = "Lookup" /\ ~x.Deliverable) =>
         (OnlyCounter(r, "undeliverable") /\ tele[r] = << CreateAction("undeliverable") >>)
    /\ IsError(x) =>
         (OnlyCounter(r, "error") /\ tele[r] = << CaptureError(x), CreateAction("error") >>)

\* C7 as amended: the counter follows the value handed to countAndRespond: a
\* Lookup with Deliverable set counts "deliverable" only, one without counts
\* "undeliverable" only, an address-parse or verification error is captured by
\* the error sink and counts "error" only; an error raised by the encoder
\* (unsupported format, missing callback) makes no metrics call, and the
\* request stays classified by that value.
C7_ClassifiedByResult ==
    /\ \A r \in Req : Counted(r) => ClassifiedBy(r, res[r])
    /\ \A a \in Actions :
         tinystat[a] = Cardinality({r \in Req : Created(tele[r], a) = 1})
    /\ Len(raven) = Cardinality({r \in Req : Counted(r) /\ IsError(res[r])})

C7_Witness ==
    \E q, r \in Req :
      /\ pc[q] = "Done" /\ pc[r] = "Done"
      /\ resp[q].err = ErrUnsupportedFormat /\ res[q].type = "Lookup" /\ res[q].Deliverable
      /\ tele[q] = << CreateAction("deliverable") >>
      /\ resp[r].err = ErrInvalidCallback /\ res[r].type = "error"
      /\ tele[r] = << CaptureError(res[r]), CreateAction("error") >>

\* ----------------------------------------------------------------- C8
\* C8 as stated: whatever the metrics backend does, a request whose result is
\* known is eventually answered.
C8_Original == \A r \in Req : (pc[r] = "Counting") ~> (pc[r] = "Done")

\* ----------------------------------------------------------------- C9
\* C9: a finished request whose format is JSONP in any letter case gets, with
\* an empty callback, the 400 ErrInvalidCallback and nothing written by an
\* encoder, whatever its result was; with a callback, the result handed to
\* countAndRespond encoded as JSONP under that callback with the given code.
C9_JSONPCallback ==
    \A r \in Req :
      (pc[r] = "Done" /\ EqualFold(format[r], FormatJSONP)) =>
        IF callback[r] = ""
        THEN /\ resp[r].status = StatusBadRequest
             /\ resp[r].err = ErrInvalidCallback
             /\ resp[r].mime = "none" /\ resp[r].payload = Nil
        ELSE /\ resp[r].status = code[r]
             /\ resp[r].err = Nil
             /\ resp[r].mime = "jsonp" /\ resp[r].callback = callback[r]
             /\ resp[r].payload = res[r]

C9_Witness ==
    \E q, r \in Req :
      /\ pc[q] = "Done" /\ pc[r] = "Done"
      /\ EqualFold(format[q], FormatJSONP) /\ EqualFold(format[r], FormatJSONP)
      /\ callback[q] = "" /\ res[q].type = "Lookup" /\ ~hit[q]
      /\ resp[q].err = ErrInvalidCallback
      /\ callback[r] = "" /\ hit[r] /\ resp[r].err = ErrInvalidCallback

\* ---------------------------------------------------------------- C10
\* C10: a finished request whose format is none of JSON, JSONP, XML in any
\* letter case gets the 400 ErrUnsupportedFormat and nothing written by an
\* encoder, whatever its result was: a cached Lookup, a fresh one, an
\* address-parse error or a verification error.
Unsupported(f) ==
    ~(EqualFold(f, FormatJSON) \/ EqualFold(f, FormatJSONP) \/ EqualFold(f, FormatXML))

\* C10: an unsupported format always ends with the 400 ErrUnsupportedFormat.
C10_UnsupportedFormat ==
    \A r \in Req :
      (pc[r] = "Done" /\ Unsupported(format[r])) =>
        /\ resp[r].status = StatusBadRequest
        /\ resp[r].err = ErrUnsupportedFormat
        /\ resp[r].mime = "none" /\ resp[r].payload = Nil

C10_Witness ==
    \E q, r \in Req :
      /\ pc[q] = "Done" /\ pc[r] = "Done"
      /\ HasStored(r) /\ hit[q] /\ res[q] = lookup[r]
      /\ Unsupported(format[q]) /\ resp[q].err = ErrUnsupportedFormat
      /\ resp[q].status = StatusBadRequest

\* ---------------------------------------------------------------- C11
\* C11: a request whose address the parser rejects goes to countAndRespond
\* with 400 and an AddressParseError, and is answered with 400 whatever its
\* format; it never reads the cache, never writes it and never calls the
\* verification engine, and none of its steps changes the cache.
ParseFailed(r) ==
    pc[r] \notin {"Idle", "Received"} /\ ParseAddress(email[r]).type = "error"

C11_State ==
    \A r \in Req :
      ParseFailed(r) =>
        /\ HasResult(r) /\ res[r] = ParseAddress(email[r]) /\ code[r] = StatusBadRequest
        /\ ~PastGet(r) /\ ~HasStored(r) /\ ~hit[r] /\ calls[r] = 0
        /\ address[r] = NoAddress /\ lookup[r] = Nil
        /\ pc[r] = "Done" => resp[r].status = StatusBadRequest

C11_Step ==
    \A r \in Req :
      (pc'[r] # pc[r] /\ ParseFailed(r)') =>
        (lookupCache' = lookupCache /\ engineCalls' = engineCalls)

\* C11: a parse failure answers 400 with the parse error, counts one "error",
\* and touches neither the cache nor the engine.
C11_ParseErrorFrame == [](C11_State) /\ [][C11_Step]_vars

C11_Witness ==
    \E q, r \in Req :
      /\ q < r /\ HasStored(q) /\ pc[q] = "Done"
      /\ ParseFailed(r) /\ pc[r] = "Done" /\ ValidFormat(r)
      /\ resp[r].status = StatusBadRequest /\ resp[r].payload = res[r]
      /\ lookupCache[CacheKey(q)].Object = lookup[q]

\* ---------------------------------------------------------------- C12
\* C12: a finished request with a valid format has status 400 with the parse
\* error as body if the address failed to parse, 500 with the engine's error
\* as body if the verification failed or timed out, and 200 with the Lookup
\* as body on a cache hit or a fresh successful verification; nothing else.
C12_StatusByStage ==
    \A r \in Req :
      (pc[r] = "Done" /\ ValidFormat(r)) =>
        /\ resp[r].err = Nil /\ resp[r].payload = res[r]
        /\ resp[r].status \in {StatusOK, StatusBadRequest, StatusInternalServerError}
        /\ ParseFailed(r) <=>
             (resp[r].status = StatusBadRequest /\ res[r].kind = "AddressParseError")
        /\ VerificationFailed(r) <=> resp[r].status = StatusInternalServerError
        /\ (hit[r] \/ HasStored(r)) <=>
             (resp[r].status = StatusOK /\ res[r].type = "Lookup")
        /\ ParseFailed(r) \/ VerificationFailed(r) \/ hit[r] \/ HasStored(r)

C12_Witness ==
    \E q, r \in Req :
      /\ pc[q] = "Done" /\ pc[r] = "Done" /\ ValidFormat(q) /\ ValidFormat(r)
      /\ VerificationFailed(q) /\ resp[q].status = StatusInternalServerError
      /\ HasStored(r) /\ resp[r].status = StatusOK

\* ---------------------------------------------------------------- C14
\* C14: a request calls the verification engine at most once: once when its
\* address parsed and its cache Get missed, never on a parse error or a cache
\* hit; after a failed or timed-out verification it makes no further call.
C14_NoRetries ==
    /\ \A r \in Req :
         /\ calls[r] <= 1
         /\ PastGet(r) => calls[r] = (IF hit[r] THEN 0 ELSE 1)
         /\ ~PastGet(r) => calls[r] = 0
         /\ VerificationFailed(r) => (calls[r] = 1 /\ ~hit[r])
    /\ \A a \in Addresses :
         engineCalls[a] =
           Cardinality({r \in Req : PastGet(r) /\ ~hit[r] /\ address[r].Address = a})

C14_Witness ==
    \E q, r \in Req :
      /\ pc[q] = "Done" /\ pc[r] = "Done"
      /\ VerificationFailed(q) /\ res[q].kind = "Timeout" /\ calls[q] = 1
      /\ ParseFailed(r) /\ calls[r] = 0

\* ---------------------------------------------------------------- C13
\* The request is finished: count has made its metrics call and respond has
\* read the format and produced the response.
Finished(r) ==
    /\ tele[r] # << >> /\ Increments(r) = 1
    /\ format[r] \in Formats
    /\ resp[r].status \in {StatusOK, StatusBadRequest, StatusInternalServerError}

C13_Safe == \A r \in Req : pc[r] = "Done" => Finished(r)

C13_Step ==
    \A r \in Req :
      /\ pc[r] = "Done" => (pc'[r] = "Done" /\ resp'[r] = resp[r] /\ tele'[r] = tele[r])
      /\ (pc[r] # "Done" /\ pc'[r] = "Done") => (pc[r] = "Responding" /\ tele[r] # << >>)

Missed(a) == {r \in Req : PastGet(r) /\ ~hit[r] /\ address[r].Address = a}

\* C15: verifications are not coalesced: a request about to read the cache
\* never waits for another request that is verifying the same address; a
\* Get that finds no live entry is a miss that calls the engine on its own,
\* so the engine call count of an address is the number of requests that
\* missed, and every request that got a Lookup back stores its own.
C15_NoCoalescing ==
    /\ \A r \in Req : pc[r] = "Normalized" => ENABLED CacheLookup(r)
    /\ \A a \in Addresses : engineCalls[a] = Cardinality(Missed(a))
    /\ \A r \in Req :
         (HasResult(r) /\ ~hit[r] /\ res[r].type = "Lookup") =>
           (HasStored(r) /\ res[r] = lookup[r] /\ lookup[r].id <= Cardinality(produced))
    /\ \A q, r \in Req :
         (q # r /\ HasStored(q) /\ HasStored(r)) => lookup[q] # lookup[r]

C15_Witness ==
    \E q, r \in Req :
      /\ q # r /\ SameAddress(q, r) /\ ~hit[q] /\ ~hit[r]
      /\ getAt[q] = getAt[r] /\ calls[q] = 1 /\ calls[r] = 1
      /\ engineCalls[address[q].Address] = 2
      /\ HasStored(q) /\ HasStored(r) /\ lookup[q] # lookup[r]
      /\ pc[q] = "Done" /\ pc[r] = "Done"

\* ---------------------------------------------------------------- C16
C16_State ==
    \A h \in Hashes :
      lookupCache[h] # NoItem =>
        /\ \E q \in Req : HasStored(q) /\ CacheKey(q) = h
                          /\ lookupCache[h].Object = lookup[q]
                          /\ lookupCache[h].Expiration = storedAt[q] + DefaultExpiration
        /\ lookupCache[h].Object \in produced

C16_Hits ==
    \A r \in Req :
      hit[r] => \E q \in Req : q # r /\ HasStored(q) /\ SameAddress(q, r)
                               /\ res[r] = lookup[q] /\ storedAt[q] <= getAt[r]

C16_Step ==
    \A r \in Req :
      (pc[r] = "Verified" /\ pc'[r] = "Counting") =>
        /\ lookupCache'[CacheKey(r)].Object = lookup[r]
        /\ \A h \in Hashes : h # CacheKey(r) => lookupCache'[h] = lookupCache[h]

Fresh200(r) == HasResult(r) /\ ~hit[r] /\ res[r].type = "Lookup"

\* C17 as stated: when the 200 response of a freshly verified address is
\* delivered, the cache holds that Lookup under the address's hash.
C17_Original ==
    [][\A r \in Req :
         (pc[r] = "Responding" /\ pc'[r] = "Done" /\ Fresh200(r)
            /\ resp'[r].status = StatusOK) =>
           lookupCache[CacheKey(r)].Object = lookup[r]]_vars

\* The entry of r's hash is r's Lookup, or the Lookup a request for the same
\* address stored no earlier than r stored its own.
HoldsOwnOrLater(r) ==
    LET it == lookupCache[CacheKey(r)] IN
      /\ it # NoItem
      /\ \/ it.Object = lookup[r]
         \/ \E q \in Req : /\ q # r /\ SameAddress(q, r) /\ HasStored(q)
                           /\ storedAt[q] >= storedAt[r] /\ it.Object = lookup[q]
      /\ it.Expiration >= storedAt[r] + DefaultExpiration

C17_State ==
    \A r \in Req :
      /\ Fresh200(r) => (HasStored(r) /\ res[r] = lookup[r] /\ code[r] = StatusOK)
      /\ (Fresh200(r) /\ now <= storedAt[r] + DefaultExpiration) => HoldsOwnOrLater(r)
      /\ pc[r] = "Verified" => (tele[r] = << >> /\ resp[r] = NoResp /\ ~HasStored(r))
      /\ HasStored(r) => Fresh200(r)

C17_Step ==
    \A r \in Req :
      /\ (pc[r] = "Verifying" /\ pc'[r] # pc[r] /\ lookup'[r] # Nil) => pc'[r] = "Verified"
      /\ (pc[r] = "Verified" /\ pc'[r] # pc[r]) =>
           (pc'[r] = "Counting" /\ lookupCache'[CacheKey(r)].Object = lookup[r])
      /\ (pc[r] = "Counting" /\ pc'[r] # pc[r]) => (pc'[r] = "Responding" /\ resp'[r] = NoResp)
      /\ (pc[r] = "Responding" /\ pc'[r] # pc[r]) => pc'[r] = "Done"

\* C17 as amended: on the fresh-verification path the steps come in the order
\* Verifying, Verified, store, count, respond: the Lookup is stored before
\* any metrics call and before the response is encoded; when the response is
\* delivered, and as long as the stored entry has not expired, the cache
\* holds under the address's hash that Lookup or the Lookup that a
\* concurrent request for the same address stored after it.
C17_StoredBeforeResponding == [](C17_State) /\ [][C17_Step]_vars

C17_Witness ==
    \E q, r \in Req :
      /\ q # r /\ SameAddress(q, r) /\ pc[r] = "Done" /\ Fresh200(r)
      /\ resp[r].status = StatusOK /\ resp[r].payload = lookup[r]
      /\ HasStored(q) /\ lookup[q] # lookup[r]
      /\ lookupCache[CacheKey(r)].Object = lookup[q]
      /\ now <= storedAt[r] + DefaultExpiration

\* ---------------------------------------------------------------- C18
\* C18 (SeqSpec): an encoder failure neither skips nor undoes the work before
\* it: a finished request for a parsed address that missed the cache and has
\* an invalid format (unsupported, or JSONP without callback) called the
\* engine once, stored the Lookup if it got one, and is answered with 400 and
\* no body; a later request for the same address with a valid format, within
\* the expiration of that entry, is a hit for that Lookup with no engine call
\* and status 200.
C18_EncoderFailureKeepsWork ==
    /\ \A q \in Req :
         (pc[q] = "Done" /\ ~ValidFormat(q)) =>
           /\ resp[q].status = StatusBadRequest /\ resp[q].payload = Nil
           /\ resp[q].err \in {ErrUnsupportedFormat, ErrInvalidCallback}
           /\ (PastGet(q) /\ ~hit[q]) => calls[q] = 1
           /\ lookup[q] # Nil => (HasStored(q) /\ lookup[q] \in produced)
    /\ \A q, r \in Req :
         (WithinTTL(q, r) /\ pc[q] = "Done" /\ ~ValidFormat(q)
            /\ pc[r] = "Done" /\ ValidFormat(r)) =>
           /\ hit[r] /\ calls[r] = 0
           /\ resp[r].status = StatusOK /\ resp[r].payload = lookup[q]

C18_Witness ==
    \E q, r \in Req :
      /\ WithinTTL(q, r) /\ pc[q] = "Done" /\ pc[r] = "Done"
      /\ Unsupported(format[q]) /\ resp[q].status = StatusBadRequest
      /\ calls[q] = 1 /\ ValidFormat(r) /\ hit[r] /\ calls[r] = 0
      /\ resp[r].status = StatusOK /\ resp[r].payload = lookup[q]
      /\ engineCalls[address[q].Address] = 1

\* ---------------------------------------------------------------- C19
\* The request called the engine and got no Lookup back.
EngineFailed(r) == HasResult(r) /\ calls[r] = 1 /\ lookup[r] = Nil

\* C19: on the verification-failure path the value handed to countAndRespond
\* is the error VerifyAddressTimeout returned for the request's address, with
\* code 500; before respond runs, count has handed that same error to the
\* error sink and then counted "error"; respond makes no metrics call, and
\* with a valid format the body is that error.
C19_State ==
    \A r \in Req :
      EngineFailed(r) =>
        /\ res[r].type = "error" /\ res[r].kind \in {"EngineFailure", "Timeout"}
        /\ res[r] = VerifyError(res[r].kind, address[r].Address)
        /\ code[r] = StatusInternalServerError
        /\ pc[r] = "Counting" => (tele[r] = << >> /\ resp[r] = NoResp)
        /\ Counted(r) =>
             /\ tele[r] = << CaptureError(res[r]), CreateAction("error") >>
             /\ \E i \in 1..Len(raven) : raven[i] = CaptureError(res[r])
             /\ tinystat["error"] >= 1
        /\ pc[r] = "Responding" => resp[r] = NoResp
        /\ (pc[r] = "Done" /\ ValidFormat(r)) => resp[r].payload = res[r]

C19_Step ==
    \A r \in Req :
      (pc[r] = "Responding" /\ pc'[r] = "Done") =>
        (tele' = tele /\ raven' = raven /\ tinystat' = tinystat)

C20_State ==
    /\ \A r \in Req : Counted(r) => tele[r] = count(res[r])
    /\ \A q, r \in Req :
         (pc[q] = "Done" /\ pc[r] = "Done" /\ res[q] = res[r]) => tele[q] = tele[r]
    /\ \A r \in Req :
         (pc[r] = "Done" /\ resp[r].err # Nil) =>
           (Increments(r) = 1 /\ \A i \in 1..Len(tele[r]) : tele[r][i].err # resp[r].err)

C20_Step ==
    \A r \in Req :
      (pc[r] = "Responding" /\ pc'[r] = "Done") =>
        (tele' = tele /\ raven' = raven /\ tinystat' = tinystat)

\* C20: the metrics calls depend on the value handed to countAndRespond
\* only, never on the format, the callback or the encoder's outcome.
C20_TelemetryIgnoresFormat == [](C20_State) /\ [][C20_Step]_vars

C20_Witness ==
    \E q, r \in Req :
      /\ q # r /\ pc[q] = "Done" /\ pc[r] = "Done" /\ res[q] = res[r]
      /\ res[q].type = "Lookup"
      /\ ValidFormat(q) /\ resp[q].status = StatusOK
      /\ ~ValidFormat(r) /\ resp[r].err = ErrInvalidCallback
      /\ tele[q] = tele[r] /\ Increments(r) = 1

====
